---- MODULE Spec2Model ----
(***************************************************************************)
(* Gradient adapters of tensorflow/python/ops/image_grad.py.               *)
(*                                                                         *)
(* The autodiff engine calls a registered adapter with an operator record  *)
(* (op) and the output gradient (grad).  An adapter reads the record,      *)
(* possibly queries the runtime shape of the image, looks attributes up,   *)
(* calls one or two gradient kernels and returns a list of gradients.      *)
(* Every call an adapter makes to a collaborator (array_ops.shape,         *)
(* op.get_attr, a gen_image_ops kernel) is one step of the model, so that  *)
(* invocations interleave between calls and a call may raise.              *)
(***************************************************************************)
EXTENDS Integers, Sequences, FiniteSets, TLC

\* Number of adapter invocations the engine has in flight at once.
NumInvocations == 2

Invocations == 1..NumInvocations

----------------------------------------------------------------------------
(* Values handled by the adapters.  Every value is a record of one shape:  *)
(* tag says what it is, ref names the tensor or kernel it comes from and   *)
(* dims holds the dimensions of a static shape.                            *)

\* Python's None: the "no gradient" marker in a returned list.
None == [tag |-> "None", ref |-> "", dims |-> <<>>]

\* A local variable that has not been assigned yet.
Unbound == [tag |-> "unbound", ref |-> "", dims |-> <<>>]

\* A tensor of the graph, named by where it comes from: "grad", "inputs[0]", ...
TensorRef(ref) == [tag |-> "tensor", ref |-> ref, dims |-> <<>>]

\* The tensor a kernel call returns.
KernelOut(fn) == [tag |-> "kernel_out", ref |-> fn, dims |-> <<>>]

\* A TensorShape whose dimensions are all known (or its as_list()).
StaticShape(dims) == [tag |-> "static_shape", ref |-> "", dims |-> dims]

\* The tensor array_ops.shape(t) returns.
ShapeOf(ref) == [tag |-> "shape", ref |-> ref, dims |-> <<>>]

\* The strided slice array_ops.shape(t)[1:3].
ShapeOfHW(ref) == [tag |-> "shape[1:3]", ref |-> ref, dims |-> <<>>]

----------------------------------------------------------------------------
(* Static shapes.  A dimension is a natural number, or -1 when it is not   *)
(* known while the graph is built; a shape of unknown rank has no dims.    *)

UnknownRank == [rank_known |-> FALSE, dims |-> <<>>]

KnownRank(dims) == [rank_known |-> TRUE, dims |-> dims]

\* TensorShape.is_fully_defined()
is_fully_defined(shape) ==
    /\ shape.rank_known
    /\ \A k \in 1..Len(shape.dims) : shape.dims[k] >= 0

\* TensorShape.__getitem__ with the slice 1:3 (Python indices 1 and 2); a
\* shape of unknown rank slices to a shape of unknown rank.
SliceHW(shape) ==
    IF shape.rank_known /\ Len(shape.dims) >= 3
    THEN KnownRank(SubSeq(shape.dims, 2, 3))
    ELSE UnknownRank

\* The static shapes an NHWC image may have: each of batch, height, width and
\* channels known or not, or nothing known at all.
ImageShapes ==
    {UnknownRank} \cup
    {KnownRank(<<b, h, w, c>>) : b \in {-1, 1}, h \in {-1, 10}, w \in {-1, 20}, c \in {-1, 3}}

\* dtypes.float16, dtypes.float32, dtypes.float64 and two integer types.
DTypes == {"float16", "float32", "float64", "int32", "uint8"}

----------------------------------------------------------------------------
(* Operator records.  An operator record holds the forward op's type, its  *)
(* input tensors (each with a dtype and a static shape) and its attributes *)
(* (a mapping from attribute name to value, every value written as text).  *)

OpTypes ==
    {"ResizeNearestNeighbor", "ResizeBilinear", "CropAndResize", "Resample",
     "RoiPooling", "RoiUnpooling"}

\* Number of inputs of each forward op.
InputCount(type) == IF type = "CropAndResize" THEN 4 ELSE 2

\* The attributes each adapter reads from its forward op.
AttrNames(type) ==
    CASE type = "ResizeNearestNeighbor" -> {"align_corners"}
      [] type = "ResizeBilinear" -> {"align_corners"}
      [] type = "CropAndResize" -> {"T"}
      [] type = "Resample" -> {"bicubic", "antialias"}
      [] type = "RoiPooling" -> {"pooled_height", "pooled_width", "spatial_scale"}
      [] type = "RoiUnpooling" ->
            {"pooled_height", "pooled_width", "spatial_scale", "batch_size"}

\* The values an attribute may have on a forward op whose image has `dtype`.
AttrValues(name, dtype) ==
    CASE name \in {"align_corners", "bicubic", "antialias"} -> {"True", "False"}
      [] name = "T" -> {dtype}
      [] name = "pooled_height" -> {"6"}
      [] name = "pooled_width" -> {"7"}
      [] name = "spatial_scale" -> {"0.0625"}
      [] name = "batch_size" -> {"2"}

\* The gradient kernels each adapter calls.
KernelNames(type) ==
    CASE type = "ResizeNearestNeighbor" -> {"_resize_nearest_neighbor_grad"}
      [] type = "ResizeBilinear" -> {"_resize_bilinear_grad"}
      [] type = "CropAndResize" ->
            {"crop_and_resize_grad_image", "crop_and_resize_grad_boxes"}
      [] type = "Resample" -> {"resample_grad"}
      [] type = "RoiPooling" -> {"roi_pooling_grad"}
      [] type = "RoiUnpooling" -> {"roi_pooling_grad"}

\* Input k (counted from 0, as op.inputs[k]) of an operator record.
Tensor(ref, dtype, shape) == [ref |-> ref, dtype |-> dtype, shape |-> shape]

InputRef(k) ==
    CASE k = 0 -> "inputs[0]" [] k = 1 -> "inputs[1]"
      [] k = 2 -> "inputs[2]" [] k = 3 -> "inputs[3]"

\* The attribute mappings a record of `type` may hold: every attribute the
\* adapter reads, or all but one of them (a malformed record).
AttrMaps(type, dtype) ==
    UNION { { a \in [names -> UNION {AttrValues(n, dtype) : n \in names}] :
                \A n \in names : a[n] \in AttrValues(n, dtype) } :
            names \in { AttrNames(type) \ gone :
                        gone \in {{}} \cup {{n} : n \in AttrNames(type)} } }

\* The inputs of a forward op: the image (input 0) with the given dtype and
\* static shape, input 1 with the given dtype, the others integer tensors.
Inputs(type, dtype, shape, dtype1) ==
    [k \in 1..InputCount(type) |->
        IF k = 1 THEN Tensor(InputRef(0), dtype, shape)
        ELSE IF k = 2 THEN Tensor(InputRef(1), dtype1, UnknownRank)
        ELSE Tensor(InputRef(k - 1), "int32", UnknownRank)]

\* The records of one forward op type and image dtype: any static shape of the
\* image, input 1 with a floating point or an integer dtype.
OpRecordsOf(type, dtype) ==
    { [type |-> type, inputs |-> Inputs(type, dtype, shape, dtype1), attrs |-> attrs] :
        shape \in ImageShapes, dtype1 \in {"float32", "int32"},
        attrs \in AttrMaps(type, dtype) }

OpRecords == UNION { OpRecordsOf(type, dtype) : type \in OpTypes, dtype \in DTypes }

\* The slot of an invocation the engine has not made.
NoOp == [type |-> "none", inputs |-> <<>>, attrs |-> <<>>]

----------------------------------------------------------------------------
(* The state.                                                              *)
(*   op[i]      the operator record invocation i was called with           *)
(*   failing[i] the kernels that raise when invocation i calls them (a     *)
(*              shape mismatch, an unsupported hardware path)              *)
(*   frame[i]   the Python frame of invocation i: where it is (pc, named   *)
(*              after the source line it executes next), its locals        *)
(*              (image_shape, the attribute values in env, grad0, grad1),  *)
(*              the calls it has made so far, and how it ended (result or  *)
(*              error)                                                     *)
VARIABLES op, failing, frame

vars == <<op, failing, frame>>

NoError == [kind |-> "", what |-> ""]

EmptyEnv == [n \in {} |-> ""]

\* The first line of each adapter's body.
Entry(type) ==
    CASE type = "ResizeNearestNeighbor" -> "L38"
      [] type = "ResizeBilinear" -> "L64"
      [] type = "CropAndResize" -> "L91"
      [] type = "Resample" -> "L126"
      [] type = "RoiPooling" -> "L140"
      [] type = "RoiUnpooling" -> "L158"
      [] OTHER -> "idle"

\* The frame of an adapter that has just been called.
NewFrame(type) ==
    [pc |-> Entry(type), image_shape |-> Unbound, env |-> EmptyEnv,
     grad0 |-> Unbound, grad1 |-> Unbound, calls |-> <<>>,
     result |-> <<>>, error |-> NoError]

Finished(f) == f.pc \in {"returned", "raised"}

\* Raise as it would be if the adapters caught the failures of their
\* collaborators and answered "no gradient" instead.
Raise_Swallowed(f, kind, what) ==
    [f EXCEPT !.pc = "returned", !.result = <<None, None>>]

\* An exception leaves the adapter: nothing in this file catches one.
Raise(f, kind, what) ==
    [f EXCEPT !.pc = "raised", !.error = [kind |-> kind, what |-> what]]

\* Return as it would be with the list written in the wrong order.
Return_Reversed(f, grads) ==
    [f EXCEPT !.pc = "returned",
              !.result = [k \in 1..Len(grads) |-> grads[Len(grads) + 1 - k]]]

\* Return as it would be if grad0 were a variable of the module, which every
\* invocation assigns, and not a local of the call.
Return_SharedGrad0(f, grads) ==
    [f EXCEPT !.pc = "returned", !.result = [grads EXCEPT ![1] = frame[1].grad0]]

\* A return statement.
Return(f, grads) == [f EXCEPT !.pc = "returned", !.result = grads]

\* The calls an adapter makes, as the collaborator sees them.
ShapeCall(ref) ==
    [kind |-> "shape", fn |-> "array_ops.shape", args |-> <<TensorRef(ref)>>,
     kwargs |-> <<>>, ok |-> TRUE]

AttrCall(name, ok) ==
    [kind |-> "attr", fn |-> "get_attr",
     args |-> <<[tag |-> "name", ref |-> name, dims |-> <<>>]>>,
     kwargs |-> <<>>, ok |-> ok]

KernelCall(fn, args, kwargs, ok) ==
    [kind |-> "kernel", fn |-> fn, args |-> args, kwargs |-> kwargs, ok |-> ok]

\* local = op.get_attr(name): the value when the record has the attribute,
\* else the lookup raises ValueError.
get_attr(f, o, local, name, next) ==
    LET ok == name \in DOMAIN o.attrs
        g == [f EXCEPT !.calls = Append(@, AttrCall(name, ok))]
    IN  IF ok
        THEN [g EXCEPT !.env = (local :> o.attrs[name]) @@ @, !.pc = next]
        ELSE Raise(g, "ValueError", name)

\* target = gen_image_ops.fn(*args, **kwargs): the kernel's output, or the
\* kernel's failure.
Kernel(f, fails, fn, args, kwargs, target, next) ==
    LET ok == fn \notin fails
        g == [f EXCEPT !.calls = Append(@, KernelCall(fn, args, kwargs, ok))]
    IN  IF ok
        THEN [g EXCEPT ![target] = KernelOut(fn), !.pc = next]
        ELSE Raise(g, "KernelError", fn)

\* Eligible as it would be with the dtype test left out.
Eligible_Always(o, allowed_types) == TRUE

\* op.inputs[0].dtype in allowed_types
Eligible(o, allowed_types) == o.inputs[1].dtype \in allowed_types

----------------------------------------------------------------------------
(* The adapters, one step (up to the next call of a collaborator) at a     *)
(* time.  Each operator maps the frame f of an invocation on the record o  *)
(* to the frame after the step.                                            *)

\* _ResizeNearestNeighborGrad as it would be if it took the whole shape of the
\* image (as _CropAndResizeGrad does) and not its height and width.
_ResizeNearestNeighborGrad_WholeShape(f, o, fails) ==
    CASE f.pc = "L38" ->
            LET image == o.inputs[1] IN
            IF is_fully_defined(image.shape)
            THEN [f EXCEPT !.image_shape = StaticShape(image.shape.dims),
                           !.pc = "L48"]
            ELSE [f EXCEPT !.calls = Append(@, ShapeCall(image.ref)),
                           !.image_shape = ShapeOf(image.ref),
                           !.pc = "L48"]
      [] f.pc = "L48" -> get_attr(f, o, "align_corners", "align_corners", "L45")
      [] f.pc = "L45" ->
            Kernel(f, fails, "_resize_nearest_neighbor_grad",
                   <<TensorRef("grad"), f.image_shape>>,
                   <<<<"align_corners", f.env["align_corners"]>>>>,
                   "grad0", "L50")
      [] f.pc = "L50" -> Return(f, <<f.grad0, None>>)

\* @ops.RegisterGradient("ResizeNearestNeighbor")
_ResizeNearestNeighborGrad(f, o, fails) ==
    CASE f.pc = "L38" ->
            LET image == o.inputs[1] IN
            IF is_fully_defined(SliceHW(image.shape))
            THEN [f EXCEPT !.image_shape = StaticShape(SliceHW(image.shape).dims),
                           !.pc = "L48"]
            ELSE [f EXCEPT !.calls = Append(@, ShapeCall(image.ref)),
                           !.image_shape = ShapeOfHW(image.ref),
                           !.pc = "L48"]
      [] f.pc = "L48" -> get_attr(f, o, "align_corners", "align_corners", "L45")
      [] f.pc = "L45" ->
            Kernel(f, fails, "_resize_nearest_neighbor_grad",
                   <<TensorRef("grad"), f.image_shape>>,
                   <<<<"align_corners", f.env["align_corners"]>>>>,
                   "grad0", "L50")
      [] f.pc = "L50" -> Return(f, <<f.grad0, None>>)

\* @ops.RegisterGradient("ResizeBilinear")
_ResizeBilinearGrad(f, o, fails) ==
    CASE f.pc = "L64" ->
            [f EXCEPT !.grad0 = None,
                      !.pc = IF Eligible(o, {"float32", "float64"})
                             THEN "L71" ELSE "L73"]
      [] f.pc = "L71" -> get_attr(f, o, "align_corners", "align_corners", "L68")
      [] f.pc = "L68" ->
            Kernel(f, fails, "_resize_bilinear_grad",
                   <<TensorRef("grad"), TensorRef(o.inputs[1].ref)>>,
                   <<<<"align_corners", f.env["align_corners"]>>>>,
                   "grad0", "L73")
      [] f.pc = "L73" -> Return(f, <<f.grad0, None>>)

\* _CropAndResizeGrad as it would be if the gradient of the boxes were only
\* computed for an image of an eligible dtype.
_CropAndResizeGrad_BoxesGated(f, o, fails) ==
    CASE f.pc = "L91" ->
            LET image == o.inputs[1]
                g == IF is_fully_defined(image.shape)
                     THEN [f EXCEPT !.image_shape = StaticShape(image.shape.dims)]
                     ELSE [f EXCEPT !.calls = Append(@, ShapeCall(image.ref)),
                                    !.image_shape = ShapeOf(image.ref)]
            IN  IF Eligible(o, {"float16", "float32", "float64"})
                THEN [g EXCEPT !.pc = "L104"]
                ELSE [g EXCEPT !.grad0 = None, !.grad1 = None, !.pc = "L112"]
      [] f.pc = "L104" -> get_attr(f, o, "T", "T", "L100")
      [] f.pc = "L100" ->
            Kernel(f, fails, "crop_and_resize_grad_image",
                   <<TensorRef("grad"), TensorRef(o.inputs[2].ref),
                     TensorRef(o.inputs[3].ref), f.image_shape>>,
                   <<<<"T", f.env["T"]>>>>,
                   "grad0", "L109")
      [] f.pc = "L109" ->
            Kernel(f, fails, "crop_and_resize_grad_boxes",
                   <<TensorRef("grad"), TensorRef(o.inputs[1].ref),
                     TensorRef(o.inputs[2].ref), TensorRef(o.inputs[3].ref)>>,
                   <<>>,
                   "grad1", "L112")
      [] f.pc = "L112" -> Return(f, <<f.grad0, f.grad1, None, None>>)

\* @ops.RegisterGradient("CropAndResize")
_CropAndResizeGrad(f, o, fails) ==
    CASE f.pc = "L91" ->
            LET image == o.inputs[1]
                g == IF is_fully_defined(image.shape)
                     THEN [f EXCEPT !.image_shape = StaticShape(image.shape.dims)]
                     ELSE [f EXCEPT !.calls = Append(@, ShapeCall(image.ref)),
                                    !.image_shape = ShapeOf(image.ref)]
            IN  IF Eligible(o, {"float16", "float32", "float64"})
                THEN [g EXCEPT !.pc = "L104"]
                ELSE [g EXCEPT !.grad0 = None, !.pc = "L109"]
      [] f.pc = "L104" -> get_attr(f, o, "T", "T", "L100")
      [] f.pc = "L100" ->
            Kernel(f, fails, "crop_and_resize_grad_image",
                   <<TensorRef("grad"), TensorRef(o.inputs[2].ref),
                     TensorRef(o.inputs[3].ref), f.image_shape>>,
                   <<<<"T", f.env["T"]>>>>,
                   "grad0", "L109")
      [] f.pc = "L109" ->
            Kernel(f, fails, "crop_and_resize_grad_boxes",
                   <<TensorRef("grad"), TensorRef(o.inputs[1].ref),
                     TensorRef(o.inputs[2].ref), TensorRef(o.inputs[3].ref)>>,
                   <<>>,
                   "grad1", "L112")
      [] f.pc = "L112" -> Return(f, <<f.grad0, f.grad1, None, None>>)

\* _ResampleGrad as it would be without the test of the dtype.
_ResampleGrad_Ungated(f, o, fails) ==
    CASE f.pc = "L126" -> [f EXCEPT !.grad0 = None, !.pc = "L133"]
      [] f.pc = "L133" -> get_attr(f, o, "bicubic", "bicubic", "L134")
      [] f.pc = "L134" -> get_attr(f, o, "antialias", "antialias", "L130")
      [] f.pc = "L130" ->
            Kernel(f, fails, "resample_grad",
                   <<TensorRef("grad"), TensorRef(o.inputs[1].ref)>>,
                   <<<<"bicubic", f.env["bicubic"]>>,
                     <<"antialias", f.env["antialias"]>>>>,
                   "grad0", "L136")
      [] f.pc = "L136" -> Return(f, <<f.grad0, None>>)

\* @ops.RegisterGradient("Resample")
_ResampleGrad(f, o, fails) ==
    CASE f.pc = "L126" ->
            [f EXCEPT !.grad0 = None,
                      !.pc = IF Eligible(o, {"float32", "float64"})
                             THEN "L133" ELSE "L136"]
      [] f.pc = "L133" -> get_attr(f, o, "bicubic", "bicubic", "L134")
      [] f.pc = "L134" -> get_attr(f, o, "antialias", "antialias", "L130")
      [] f.pc = "L130" ->
            Kernel(f, fails, "resample_grad",
                   <<TensorRef("grad"), TensorRef(o.inputs[1].ref)>>,
                   <<<<"bicubic", f.env["bicubic"]>>,
                     <<"antialias", f.env["antialias"]>>>>,
                   "grad0", "L136")
      [] f.pc = "L136" -> Return(f, <<f.grad0, None>>)

\* _RoiPoolingGrad as it would be with the argmax and the gradient passed to
\* the kernel in the wrong order.
_RoiPoolingGrad_ArgsSwapped(f, o, fails) ==
    CASE f.pc = "L140" ->
            [f EXCEPT !.grad0 = None,
                      !.pc = IF Eligible(o, {"float32", "float64"})
                             THEN "L146" ELSE "L154"]
      [] f.pc = "L146" -> get_attr(f, o, "pooled_height", "pooled_height", "L147")
      [] f.pc = "L147" -> get_attr(f, o, "pooled_width", "pooled_width", "L148")
      [] f.pc = "L148" -> get_attr(f, o, "spatial_scale", "spatial_scale", "L150")
      [] f.pc = "L150" ->
            Kernel(f, fails, "roi_pooling_grad",
                   <<TensorRef(o.inputs[1].ref), TensorRef(o.inputs[2].ref),
                     TensorRef("grad"), TensorRef("outputs[1]")>>,
                   <<<<"pooled_height", f.env["pooled_height"]>>,
                     <<"pooled_width", f.env["pooled_width"]>>,
                     <<"spatial_scale", f.env["spatial_scale"]>>>>,
                   "grad0", "L154")
      [] f.pc = "L154" -> Return(f, <<f.grad0, None>>)

\* @ops.RegisterGradient("RoiPooling"); the local data_grad is kept in grad0.
_RoiPoolingGrad(f, o, fails) ==
    CASE f.pc = "L140" ->
            [f EXCEPT !.grad0 = None,
                      !.pc = IF Eligible(o, {"float32", "float64"})
                             THEN "L146" ELSE "L154"]
      [] f.pc = "L146" -> get_attr(f, o, "pooled_height", "pooled_height", "L147")
      [] f.pc = "L147" -> get_attr(f, o, "pooled_width", "pooled_width", "L148")
      [] f.pc = "L148" -> get_attr(f, o, "spatial_scale", "spatial_scale", "L150")
      [] f.pc = "L150" ->
            Kernel(f, fails, "roi_pooling_grad",
                   <<TensorRef(o.inputs[1].ref), TensorRef(o.inputs[2].ref),
                     TensorRef("outputs[1]"), TensorRef("grad")>>,
                   <<<<"pooled_height", f.env["pooled_height"]>>,
                     <<"pooled_width", f.env["pooled_width"]>>,
                     <<"spatial_scale", f.env["spatial_scale"]>>>>,
                   "grad0", "L154")
      [] f.pc = "L154" -> Return(f, <<f.grad0, None>>)

\* The first of `names` that is not a local of the frame (and no global of the
\* module either: the module defines only the adapters), or "" when all are.
FirstUnbound(f, names) ==
    LET missing == {k \in 1..Len(names) : names[k] \notin DOMAIN f.env}
    IN  IF missing = {} THEN ""
        ELSE names[CHOOSE k \in missing : \A j \in missing : k <= j]

\* @ops.RegisterGradient("RoiUnpooling"); the local data_grad is kept in grad0.
\* The call at L168 reads the names pooled_height and pooled_width, which the
\* function never assigns (it assigns data_height and data_width): evaluating
\* the arguments raises NameError before the kernel is called.
_RoiUnpoolingGrad(f, o, fails) ==
    CASE f.pc = "L158" ->
            [f EXCEPT !.grad0 = None,
                      !.pc = IF Eligible(o, {"float32", "float64"})
                             THEN "L163" ELSE "L174"]
      [] f.pc = "L163" -> get_attr(f, o, "data_height", "pooled_height", "L164")
      [] f.pc = "L164" -> get_attr(f, o, "data_width", "pooled_width", "L165")
      [] f.pc = "L165" -> get_attr(f, o, "spatial_scale", "spatial_scale", "L166")
      [] f.pc = "L166" -> get_attr(f, o, "batch_size", "batch_size", "L168")
      [] f.pc = "L168" ->
            LET names == <<"pooled_height", "pooled_width", "spatial_scale", "batch_size">>
                unbound == FirstUnbound(f, names)
            IN  IF unbound # ""
                THEN Raise(f, "NameError", unbound)
                ELSE Kernel(f, fails, "roi_pooling_grad",
                            <<TensorRef(o.inputs[1].ref), TensorRef(o.inputs[2].ref),
                              TensorRef("grad")>>,
                            <<<<"data_height", f.env["pooled_height"]>>,
                              <<"data_width", f.env["pooled_width"]>>,
                              <<"spatial_scale", f.env["spatial_scale"]>>,
                              <<"batch_size", f.env["batch_size"]>>>>,
                            "grad0", "L174")
      [] f.pc = "L174" -> Return(f, <<f.grad0, None>>)

\* The registry ops.RegisterGradient fills: the adapter of each op type.
Adapter(type, f, o, fails) ==
    CASE type = "ResizeNearestNeighbor" -> _ResizeNearestNeighborGrad(f, o, fails)
      [] type = "ResizeBilinear" -> _ResizeBilinearGrad(f, o, fails)
      [] type = "CropAndResize" -> _CropAndResizeGrad(f, o, fails)
      [] type = "Resample" -> _ResampleGrad(f, o, fails)
      [] type = "RoiPooling" -> _RoiPoolingGrad(f, o, fails)
      [] type = "RoiUnpooling" -> _RoiUnpoolingGrad(f, o, fails)

\* An adapter called on its own and run to its end, as a synchronous call:
\* the frame it ends with.
RECURSIVE Run(_, _, _, _)
Run(type, f, o, fails) ==
    IF Finished(f) THEN f ELSE Run(type, Adapter(type, f, o, fails), o, fails)

----------------------------------------------------------------------------
(* The engine runs the invocations in flight one step at a time, in any    *)
(* order: invocation i runs to its next call of a collaborator, or to its  *)
(* end.                                                                    *)

ResizeNearestNeighborGrad(i) ==
    /\ op[i].type = "ResizeNearestNeighbor"
    /\ ~Finished(frame[i])
    /\ frame' = [frame EXCEPT ![i] =
                    _ResizeNearestNeighborGrad(frame[i], op[i], failing[i])]
    /\ UNCHANGED <<op, failing>>

ResizeBilinearGrad(i) ==
    /\ op[i].type = "ResizeBilinear"
    /\ ~Finished(frame[i])
    /\ frame' = [frame EXCEPT ![i] = _ResizeBilinearGrad(frame[i], op[i], failing[i])]
    /\ UNCHANGED <<op, failing>>

CropAndResizeGrad(i) ==
    /\ op[i].type = "CropAndResize"
    /\ ~Finished(frame[i])
    /\ frame' = [frame EXCEPT ![i] = _CropAndResizeGrad(frame[i], op[i], failing[i])]
    /\ UNCHANGED <<op, failing>>

ResampleGrad(i) ==
    /\ op[i].type = "Resample"
    /\ ~Finished(frame[i])
    /\ frame' = [frame EXCEPT ![i] = _ResampleGrad(frame[i], op[i], failing[i])]
    /\ UNCHANGED <<op, failing>>

RoiPoolingGrad(i) ==
    /\ op[i].type = "RoiPooling"
    /\ ~Finished(frame[i])
    /\ frame' = [frame EXCEPT ![i] = _RoiPoolingGrad(frame[i], op[i], failing[i])]
    /\ UNCHANGED <<op, failing>>

RoiUnpoolingGrad(i) ==
    /\ op[i].type = "RoiUnpooling"
    /\ ~Finished(frame[i])
    /\ frame' = [frame EXCEPT ![i] = _RoiUnpoolingGrad(frame[i], op[i], failing[i])]
    /\ UNCHANGED <<op, failing>>

Next ==
    \E i \in Invocations :
        \/ ResizeNearestNeighborGrad(i)
        \/ ResizeBilinearGrad(i)
        \/ CropAndResizeGrad(i)
        \/ ResampleGrad(i)
        \/ RoiPoolingGrad(i)
        \/ RoiUnpoolingGrad(i)

\* One gradient function called by the engine, on any operator record and with
\* any of its kernels failing; the engine's other slots are not in use.
Init ==
    \E o \in OpRecords : \E fails \in SUBSET KernelNames(o.type) :
        /\ op = [i \in Invocations |-> IF i = 1 THEN o ELSE NoOp]
        /\ failing = [i \in Invocations |-> IF i = 1 THEN fails ELSE {}]
        /\ frame = [i \in Invocations |-> NewFrame(op[i].type)]

Spec == Init /\ [][Next]_vars

\* The operator records of the branches of a well-formed graph: a float32 or
\* an int32 image whose static shape is unknown, every attribute present and
\* set, no kernel failing.
BranchRecords ==
    { o \in OpRecords :
        /\ o.inputs[1].dtype \in {"float32", "int32"}
        /\ o.inputs[1].shape = UnknownRank
        /\ o.inputs[2].dtype = "float32"
        /\ DOMAIN o.attrs = AttrNames(o.type)
        /\ \A n \in DOMAIN o.attrs : o.attrs[n] # "False" }

\* The engine walks independent branches of the graph at once: every slot
\* holds an invocation, each on its own operator record.
InitPar ==
    /\ op \in [Invocations -> BranchRecords]
    /\ failing = [i \in Invocations |-> {}]
    /\ frame = [i \in Invocations |-> NewFrame(op[i].type)]

SpecPar == InitPar /\ [][Next]_vars

----------------------------------------------------------------------------
(* Vocabulary of the properties.                                           *)

\* The invocations the engine has made.
Active == {i \in Invocations : op[i] # NoOp}

\* The adapters that gate on the dtype of input 0, and the dtypes they let pass.
Gated == {"ResizeBilinear", "CropAndResize", "Resample", "RoiPooling", "RoiUnpooling"}

EligibleSet(type) ==
    IF type = "CropAndResize" THEN {"float16", "float32", "float64"}
    ELSE {"float32", "float64"}

\* The kernel that computes the gradient of input 0.
Input0Kernel(type) ==
    CASE type = "ResizeNearestNeighbor" -> "_resize_nearest_neighbor_grad"
      [] type = "ResizeBilinear" -> "_resize_bilinear_grad"
      [] type = "CropAndResize" -> "crop_and_resize_grad_image"
      [] type = "Resample" -> "resample_grad"
      [] type = "RoiPooling" -> "roi_pooling_grad"
      [] type = "RoiUnpooling" -> "roi_pooling_grad"

\* The calls of one kind (or of one function) an invocation has made.
CallsOfKind(f, kind) == {k \in 1..Len(f.calls) : f.calls[k].kind = kind}

CallsOf(f, fn) == {k \in 1..Len(f.calls) : f.calls[k].fn = fn}

\* No collaborator the invocation called has failed.
AllCallsOk(f) == \A k \in 1..Len(f.calls) : f.calls[k].ok

\* Positions (counted from 1 in the returned sequence) of the inputs that are
\* not differentiable.
NonDifferentiable(type) == IF type = "CropAndResize" THEN {3, 4} ELSE {2}

----------------------------------------------------------------------------
(* C1.  Whenever an adapter is invoked and none of its collaborators       *)
(* fails, it returns a gradient sequence with one element per input of    *)
(* the forward op (2, 2, 4, 2, 2, 2).  The code breaks this: for a float32 *)
(* or float64 input the RoiUnpooling adapter raises NameError.             *)
C1_LengthMatchesInputs ==
    \A i \in Active :
        (Finished(frame[i]) /\ AllCallsOk(frame[i])) =>
            /\ frame[i].pc = "returned"
            /\ Len(frame[i].result) = Len(op[i].inputs)
            /\ Len(frame[i].result) = InputCount(op[i].type)

(* C2.  A gated adapter whose input 0 has an eligible dtype, and whose     *)
(* collaborators do not fail, calls its gradient kernel and returns that   *)
(* kernel's output at position 0.  The code breaks this for RoiUnpooling.  *)
C2_EligibleGetsGradient ==
    \A i \in Active :
        (/\ op[i].type \in Gated
         /\ op[i].inputs[1].dtype \in EligibleSet(op[i].type)
         /\ Finished(frame[i])
         /\ AllCallsOk(frame[i])) =>
            /\ frame[i].pc = "returned"
            /\ CallsOf(frame[i], Input0Kernel(op[i].type)) # {}
            /\ frame[i].result[1] = KernelOut(Input0Kernel(op[i].type))

(* C3.  A gated adapter whose input 0 has a dtype outside its eligible set *)
(* never calls the kernel of input 0, and ends by returning a sequence     *)
(* with None at position 0; it raises nothing of its own (the only way it  *)
(* can end otherwise is the boxes kernel of CropAndResize failing).        *)
C3_IneligibleGetsNone ==
    \A i \in Active :
        (/\ op[i].type \in Gated
         /\ op[i].inputs[1].dtype \notin EligibleSet(op[i].type)) =>
            /\ CallsOf(frame[i], Input0Kernel(op[i].type)) = {}
            /\ CallsOfKind(frame[i], "attr") = {}
            /\ Finished(frame[i]) =>
                  \/ /\ frame[i].pc = "returned"
                     /\ frame[i].result[1] = None
                  \/ /\ op[i].type = "CropAndResize"
                     /\ "crop_and_resize_grad_boxes" \in failing[i]
                     /\ frame[i].error = [kind |-> "KernelError",
                                          what |-> "crop_and_resize_grad_boxes"]

C3_Witness ==
    \E i \in Active :
        /\ op[i].type = "CropAndResize"
        /\ op[i].inputs[1].dtype = "uint8"
        /\ frame[i].pc = "returned"
        /\ frame[i].result[1] = None

(* C4.  CropAndResize computes the gradient of the boxes with the boxes    *)
(* kernel, called once with (grad, image, boxes, box_ind), whatever the    *)
(* dtype of the image: unless a collaborator fails, the invocation returns *)
(* that kernel's output at position 1, and with an ineligible image dtype  *)
(* it returns [None, box_gradient, None, None].                            *)
C4_BoxGradientAlways ==
    \A i \in Active :
        (/\ op[i].type = "CropAndResize"
         /\ Finished(frame[i])
         /\ AllCallsOk(frame[i])) =>
            /\ frame[i].pc = "returned"
            /\ \E k \in 1..Len(frame[i].calls) :
                  /\ frame[i].calls[k] =
                        [kind |-> "kernel", fn |-> "crop_and_resize_grad_boxes",
                         args |-> <<TensorRef("grad"), TensorRef("inputs[0]"),
                                    TensorRef("inputs[1]"), TensorRef("inputs[2]")>>,
                         kwargs |-> <<>>, ok |-> TRUE]
                  /\ CallsOf(frame[i], "crop_and_resize_grad_boxes") = {k}
            /\ frame[i].result[2] = KernelOut("crop_and_resize_grad_boxes")
            /\ op[i].inputs[1].dtype \notin {"float16", "float32", "float64"} =>
                  frame[i].result =
                      <<None, KernelOut("crop_and_resize_grad_boxes"), None, None>>

C4_Witness ==
    \E i \in Active :
        /\ op[i].type = "CropAndResize"
        /\ op[i].inputs[1].dtype = "int32"
        /\ frame[i].pc = "returned"
        /\ frame[i].result[2] = KernelOut("crop_and_resize_grad_boxes")

(* C5.  In every returned sequence the positions of the inputs that are    *)
(* not differentiable hold None, whatever the dtypes of the inputs: the    *)
(* size input of the resize and resample ops, box_ind and crop_size of     *)
(* CropAndResize, the rois of RoiPooling and RoiUnpooling.                 *)
C5_NonDifferentiableIsNone ==
    \A i \in Active :
        frame[i].pc = "returned" =>
            \A k \in NonDifferentiable(op[i].type) :
                /\ k <= Len(frame[i].result)
                /\ frame[i].result[k] = None

C5_Witness ==
    \E i \in Active :
        /\ op[i].type = "ResizeNearestNeighbor"
        /\ op[i].inputs[1].dtype = "float32"
        /\ op[i].inputs[2].dtype = "float32"
        /\ frame[i].pc = "returned"
        /\ frame[i].result = <<KernelOut("_resize_nearest_neighbor_grad"), None>>

\* The height and the width of an NHWC image are known while the graph is built.
HWKnown(shape) ==
    /\ shape.rank_known
    /\ Len(shape.dims) = 4
    /\ shape.dims[2] >= 0
    /\ shape.dims[3] >= 0

\* The pre-resize spatial shape: the static one when it is known, else the
\* runtime shape query.
SpatialShape(image) ==
    IF HWKnown(image.shape)
    THEN StaticShape(<<image.shape.dims[2], image.shape.dims[3]>>)
    ELSE ShapeOfHW("inputs[0]")

(* C6 as the specification states it.  Both resize adapters determine the  *)
(* pre-resize spatial shape (static when known, a runtime shape query      *)
(* otherwise) and call their kernel with the output gradient, that shape   *)
(* and the forward op's align_corners.  ResizeBilinear refutes it: it      *)
(* passes the image itself and determines no shape.                        *)
C6_BothPassShape ==
    \A i \in Active :
        (/\ op[i].type \in {"ResizeNearestNeighbor", "ResizeBilinear"}
         /\ op[i].type = "ResizeBilinear" => op[i].inputs[1].dtype \in {"float32", "float64"}
         /\ frame[i].pc = "returned") =>
            /\ (CallsOfKind(frame[i], "shape") = {}) <=> HWKnown(op[i].inputs[1].shape)
            /\ \E k \in 1..Len(frame[i].calls) :
                  frame[i].calls[k] =
                      [kind |-> "kernel", fn |-> Input0Kernel(op[i].type),
                       args |-> <<TensorRef("grad"), SpatialShape(op[i].inputs[1])>>,
                       kwargs |-> <<<<"align_corners", op[i].attrs["align_corners"]>>>>,
                       ok |-> TRUE]
            /\ frame[i].result = <<KernelOut(Input0Kernel(op[i].type)), None>>

(* C6, amended.  ResizeNearestNeighbor determines the pre-resize spatial   *)
(* shape (the static height and width when both are known, without any     *)
(* shape query; else one runtime shape query, sliced to [1:3]) and calls   *)
(* its kernel once with (grad, that shape, align_corners of the forward    *)
(* op).  ResizeBilinear determines no shape and issues no shape query: for *)
(* a float32 or float64 image it calls its kernel once with (grad, the     *)
(* original image, align_corners of the forward op) and returns            *)
(* [gradient, None]; for another dtype it calls nothing and returns        *)
(* [None, None].                                                           *)
C6_ResizeKernelArguments ==
    \A i \in Active :
        frame[i].pc = "returned" =>
            /\ op[i].type = "ResizeNearestNeighbor" =>
                  /\ Cardinality(CallsOfKind(frame[i], "shape")) =
                        (IF HWKnown(op[i].inputs[1].shape) THEN 0 ELSE 1)
                  /\ \A k \in CallsOfKind(frame[i], "shape") :
                        frame[i].calls[k].args = <<TensorRef("inputs[0]")>>
                  /\ Cardinality(CallsOfKind(frame[i], "kernel")) = 1
                  /\ \A k \in CallsOfKind(frame[i], "kernel") :
                        frame[i].calls[k] =
                            [kind |-> "kernel", fn |-> "_resize_nearest_neighbor_grad",
                             args |-> <<TensorRef("grad"), SpatialShape(op[i].inputs[1])>>,
                             kwargs |-> <<<<"align_corners", op[i].attrs["align_corners"]>>>>,
                             ok |-> TRUE]
                  /\ frame[i].result = <<KernelOut("_resize_nearest_neighbor_grad"), None>>
            /\ op[i].type = "ResizeBilinear" =>
                  /\ CallsOfKind(frame[i], "shape") = {}
                  /\ IF op[i].inputs[1].dtype \in {"float32", "float64"}
                     THEN /\ Cardinality(CallsOfKind(frame[i], "kernel")) = 1
                          /\ \A k \in CallsOfKind(frame[i], "kernel") :
                                frame[i].calls[k] =
                                    [kind |-> "kernel", fn |-> "_resize_bilinear_grad",
                                     args |-> <<TensorRef("grad"), TensorRef("inputs[0]")>>,
                                     kwargs |-> <<<<"align_corners",
                                                    op[i].attrs["align_corners"]>>>>,
                                     ok |-> TRUE]
                          /\ frame[i].result = <<KernelOut("_resize_bilinear_grad"), None>>
                     ELSE /\ frame[i].calls = <<>>
                          /\ frame[i].result = <<None, None>>

C6_Witness ==
    \E i \in Active :
        /\ op[i].type = "ResizeBilinear"
        /\ op[i].inputs[1].dtype = "float32"
        /\ op[i].inputs[1].shape = KnownRank(<<1, 10, 20, 3>>)
        /\ frame[i].pc = "returned"
        /\ frame[i].result = <<KernelOut("_resize_bilinear_grad"), None>>

(* C7 as the specification states it.  An invocation that returns has      *)
(* issued at most one runtime shape query and one or two kernel calls,     *)
(* never none.  The gated adapters refute it: for an ineligible dtype they *)
(* return without calling any kernel.                                      *)
C7_OneOrTwoKernelCalls ==
    \A i \in Active :
        frame[i].pc = "returned" =>
            /\ Cardinality(CallsOfKind(frame[i], "shape")) <= 1
            /\ Cardinality(CallsOfKind(frame[i], "kernel")) \in {1, 2}

(* C7, amended.  An invocation issues at most one runtime shape query and  *)
(* at most two kernel calls.  When it returns it has made: one kernel call *)
(* for ResizeNearestNeighbor; one for ResizeBilinear, Resample and         *)
(* RoiPooling with an eligible dtype; two for CropAndResize with an        *)
(* eligible dtype and one otherwise; and none for ResizeBilinear,          *)
(* Resample, RoiPooling and RoiUnpooling with an ineligible dtype.         *)
C7_AtMostTwoKernelCalls ==
    \A i \in Active :
        LET type == op[i].type
            eligible == op[i].inputs[1].dtype \in EligibleSet(type)
            kernels == Cardinality(CallsOfKind(frame[i], "kernel"))
        IN  /\ Cardinality(CallsOfKind(frame[i], "shape")) <= 1
            /\ kernels <= 2
            /\ frame[i].pc = "returned" =>
                  /\ type = "ResizeNearestNeighbor" => kernels = 1
                  /\ type = "CropAndResize" => kernels = (IF eligible THEN 2 ELSE 1)
                  /\ (type \in {"ResizeBilinear", "Resample", "RoiPooling"} /\ eligible) =>
                        kernels = 1
                  /\ (type \in Gated \ {"CropAndResize"} /\ ~eligible) => kernels = 0

C7_Witness ==
    \E i \in Active :
        /\ op[i].type = "ResizeBilinear"
        /\ op[i].inputs[1].dtype = "int32"
        /\ frame[i].pc = "returned"
        /\ frame[i].calls = <<>>

(* C8.  RoiPooling on float32 or float64 data, unless a collaborator       *)
(* fails, calls the pooling backward kernel once with (data, rois, the     *)
(* forward op's argmax output, grad), with pooled_height, pooled_width and *)
(* spatial_scale of the forward op, and returns [data_gradient, None].     *)
C8_RoiPoolingKernelCall ==
    \A i \in Active :
        (/\ op[i].type = "RoiPooling"
         /\ op[i].inputs[1].dtype \in {"float32", "float64"}
         /\ Finished(frame[i])
         /\ AllCallsOk(frame[i])) =>
            /\ frame[i].pc = "returned"
            /\ Cardinality(CallsOfKind(frame[i], "kernel")) = 1
            /\ \A k \in CallsOfKind(frame[i], "kernel") :
                  frame[i].calls[k] =
                      [kind |-> "kernel", fn |-> "roi_pooling_grad",
                       args |-> <<TensorRef("inputs[0]"), TensorRef("inputs[1]"),
                                  TensorRef("outputs[1]"), TensorRef("grad")>>,
                       kwargs |-> <<<<"pooled_height", op[i].attrs["pooled_height"]>>,
                                    <<"pooled_width", op[i].attrs["pooled_width"]>>,
                                    <<"spatial_scale", op[i].attrs["spatial_scale"]>>>>,
                       ok |-> TRUE]
            /\ frame[i].result = <<KernelOut("roi_pooling_grad"), None>>

C8_Witness ==
    \E i \in Active :
        /\ op[i].type = "RoiPooling"
        /\ op[i].inputs[1].dtype = "float64"
        /\ frame[i].pc = "returned"
        /\ frame[i].result = <<KernelOut("roi_pooling_grad"), None>>

C10_FailurePropagates ==
    \A i \in Active :
        \A k \in 1..Len(frame[i].calls) :
            LET call == frame[i].calls[k] IN
            /\ call.kind = "attr" => (call.ok <=> call.args[1].ref \in DOMAIN op[i].attrs)
            /\ call.kind = "kernel" => (call.ok <=> call.fn \notin failing[i])
            /\ ~call.ok =>
                  /\ k = Len(frame[i].calls)
                  /\ frame[i].pc = "raised"
                  /\ frame[i].result = <<>>
                  /\ frame[i].error =
                        (IF call.kind = "attr"
                         THEN [kind |-> "ValueError", what |-> call.args[1].ref]
                         ELSE [kind |-> "KernelError", what |-> call.fn])

C10_Witness ==
    \E i \in Active :
        /\ op[i].type = "ResizeNearestNeighbor"
        /\ frame[i].pc = "raised"
        /\ frame[i].error = [kind |-> "KernelError",
                             what |-> "_resize_nearest_neighbor_grad"]
        /\ Len(frame[i].calls) >= 2

====
